---- MODULE Spec2Model ----
(***************************************************************************)
(* The IR tree of src/core/ir/model.rs, its rewrite engine (modify,        *)
(* modify_io, Cache::wrap) and the leaf accessors (IO::dedupe, cache_key). *)
(*                                                                         *)
(* An Option<T> is a sequence of length at most one: <<>> is None and      *)
(* <<v>> is Some(v).  A Vec is a sequence, a HashMap a function.  A        *)
(* position is the sequence of child indexes leading from the root to a    *)
(* node: 1 for the only child, 1 and 2 for Pipe, the index for Merge, the  *)
(* key for Entity.                                                         *)
(***************************************************************************)
EXTENDS Integers, Sequences, FiniteSets, TLC

VARIABLES ir, input, op, calls

vars == <<ir, input, op, calls>>

(* ------------------------------ bounds --------------------------------- *)

\* The blueprint builds trees of at most this many nodes.
MaxNodes == 3

\* The counting rule replaces the node of its n-th invocation, n up to this.
MaxNth == 3

\* max_age values (NonZeroU64: strictly positive).
Windows == {1, 2}

\* Entity keys (type names), numbered.
TypeNames == {1, 2}

\* The orders in which a HashMap over TypeNames may be iterated.
IterOrders == {<<1, 2>>, <<2, 1>>}

\* Evaluation contexts: the value of args.id, when the request has one.
Contexts == {<<>>, <<1>>, <<2>>}

None == <<>>

Some(v) == <<v>>

(* --------------------------- leaf operations --------------------------- *)

\* The request template is its text; group_by, hook, is_list, field_name and
\* batch are carried along and read by none of the operations here.
Http(t, dl, d) ==
    [kind |-> "Http", req_template |-> t, group_by |-> <<>>, dl_id |-> dl,
     is_list |-> FALSE, dedupe |-> d, hook |-> <<>>]

GraphQL(t, dl, d) ==
    [kind |-> "GraphQL", req_template |-> t, field_name |-> "post", batch |-> FALSE,
     dl_id |-> dl, dedupe |-> d]

Grpc(t, dl, d) ==
    [kind |-> "Grpc", req_template |-> t, group_by |-> <<>>, dl_id |-> dl,
     dedupe |-> d, hook |-> <<>>]

Js(n) == [kind |-> "Js", name |-> n]

DataLoaderId(id) == id

IoId(id) == id

dedupe_js_declared(io) ==
    IF io.kind = "Js" THEN TRUE ELSE io.dedupe

\* IO::dedupe
dedupe(io) ==
    CASE io.kind = "Http" -> io.dedupe
      [] io.kind = "GraphQL" -> io.dedupe
      [] io.kind = "Grpc" -> io.dedupe
      [] io.kind = "Js" -> FALSE

\* RequestTemplate::cache_key of http, graphql and grpc: the fingerprint of
\* the request the template resolves to under the context, absent when an
\* argument the template needs is missing.
req_template_cache_key(t, ctx) ==
    CASE t = "users" -> Some(IoId(10))
      [] t = "post/{{args.id}}" -> IF ctx = None THEN None ELSE Some(IoId(20 + ctx[1]))
      [] OTHER -> None

cache_key_js_keyed(io, ctx) ==
    CASE io.kind = "Http" -> req_template_cache_key(io.req_template, ctx)
      [] io.kind = "Grpc" -> req_template_cache_key(io.req_template, ctx)
      [] io.kind = "GraphQL" -> req_template_cache_key(io.req_template, ctx)
      [] io.kind = "Js" -> Some(IoId(0))

\* impl CacheKey<EvalContext> for IO
cache_key(io, ctx) ==
    CASE io.kind = "Http" -> req_template_cache_key(io.req_template, ctx)
      [] io.kind = "Grpc" -> req_template_cache_key(io.req_template, ctx)
      [] io.kind = "GraphQL" -> req_template_cache_key(io.req_template, ctx)
      [] io.kind = "Js" -> None

(* ------------------------------ IR nodes -------------------------------- *)

Dynamic(v) == [tag |-> "Dynamic", value |-> v]

IO(io) == [tag |-> "IO", io |-> io]

Cache(max_age, io) == [tag |-> "Cache", max_age |-> max_age, io |-> io]

Path(expr, path) == [tag |-> "Path", input |-> expr, path |-> path]

ContextPath(path) == [tag |-> "ContextPath", path |-> path]

Protect(auth, expr) == [tag |-> "Protect", auth |-> auth, input |-> expr]

Map(expr, map) == [tag |-> "Map", input |-> expr, map |-> map]

Pipe(first, second) == [tag |-> "Pipe", first |-> first, second |-> second]

Merge(vec) == [tag |-> "Merge", vec |-> vec]

Discriminate(discriminator, expr) ==
    [tag |-> "Discriminate", discriminator |-> discriminator, input |-> expr]

Entity(map) == [tag |-> "Entity", map |-> map]

Service(sdl) == [tag |-> "Service", sdl |-> sdl]

\* IR::pipe
pipe(self, next) == Pipe(self, next)

\* The keys of a HashMap in the order this run iterates it.
IterKeys(map, ord) == SelectSeq(ord, LAMBDA k : k \in DOMAIN map)

(* ------------------------- rules of the callers ------------------------- *)

wrap_rule_first_window(max_age, expr) ==
    IF expr.tag = "IO" THEN Some(Cache(1, expr.io)) ELSE None

\* The closure of Cache::wrap.
wrap_rule(max_age, expr) ==
    IF expr.tag = "IO" THEN Some(Cache(max_age, expr.io)) ELSE None

\* A modifier (FnMut(&IR) -> Option<IR>) applied to a node with the state st
\* it has captured: what it returns and the state it is left with.
modifier(rule, st, expr) ==
    CASE rule.kind = "decline" -> [ret |-> None, st |-> st]
      [] rule.kind = "wrap" -> [ret |-> wrap_rule(rule.max_age, expr), st |-> st]
      [] rule.kind = "replace_io" ->
            [ret |-> IF expr.tag = "IO" THEN Some(rule.with) ELSE None, st |-> st]
      [] rule.kind = "uncache" ->
            [ret |-> IF expr.tag = "Cache" THEN Some(IO(expr.io)) ELSE None, st |-> st]
      [] rule.kind = "nth" ->
            [ret |-> IF st + 1 = rule.n THEN Some(rule.with) ELSE None, st |-> st + 1]

\* An io_modifier (FnMut(&mut IO)) applied to a leaf with the state st it has
\* captured: the leaf as it leaves it and the state it is left with.
io_modifier(rule, st, io) ==
    CASE rule.kind = "toggle_dedupe" ->
            [io |-> IF io.kind = "Js" THEN io ELSE [io EXCEPT !.dedupe = ~@], st |-> st]
      [] rule.kind = "number" ->
            IF io.kind = "Js"
            THEN [io |-> io, st |-> st + 1]
            ELSE [io |-> [io EXCEPT !.dl_id = Some(DataLoaderId(st))], st |-> st + 1]

(* -------------------------------- modify -------------------------------- *)

RECURSIVE modify_inner(_, _, _, _, _)
RECURSIVE modify_vec(_, _, _, _, _, _)
RECURSIVE modify_map(_, _, _, _, _, _, _)

\* IR::modify.  Besides the tree it returns the state the rule is left with
\* and the rule's invocations in order: the position each was made for, the
\* node it was shown and what it returned.
modify(self, rule, st, pos, ord) == modify_inner(self, rule, st, pos, ord)

\* IR::modify_box
modify_box(self, rule, st, pos, ord) == modify_inner(self, rule, st, pos, ord)

replaced_revisited(expr, rule, st, pos, ord) ==
    LET again == modifier(rule, st, expr)
    IN  [ir |-> expr, st |-> again.st,
         calls |-> <<[pos |-> pos, node |-> expr, ret |-> again.ret]>>]

\* The arm Some(expr) => expr of modify_inner: the replacement as it is.
replaced(expr, rule, st, pos, ord) == [ir |-> expr, st |-> st, calls |-> <<>>]

pipe_arm_second_first(self, rule, st, pos, ord) ==
    LET b == modify_box(self.second, rule, st, pos \o <<2>>, ord)
        a == modify_box(self.first, rule, b.st, pos \o <<1>>, ord)
    IN  [ir |-> Pipe(a.ir, b.ir), st |-> a.st, calls |-> b.calls \o a.calls]

pipe_arm_swaps(self, rule, st, pos, ord) ==
    LET a == modify_box(self.first, rule, st, pos \o <<1>>, ord)
        b == modify_box(self.second, rule, a.st, pos \o <<2>>, ord)
    IN  [ir |-> Pipe(b.ir, a.ir), st |-> b.st, calls |-> a.calls \o b.calls]

\* The Pipe arm of modify_inner: the first child, then the second.
pipe_arm(self, rule, st, pos, ord) ==
    LET a == modify_box(self.first, rule, st, pos \o <<1>>, ord)
        b == modify_box(self.second, rule, a.st, pos \o <<2>>, ord)
    IN  [ir |-> Pipe(a.ir, b.ir), st |-> b.st, calls |-> a.calls \o b.calls]

cache_arm_keeps_leaf(self, rule, st, pos, ord) ==
    LET r == modify_box(IO(self.io), rule, st, pos, ord)
    IN  [r EXCEPT !.ir = Cache(self.max_age, self.io)]

cache_arm_unwraps(self, rule, st, pos, ord) ==
    modify_box(IO(self.io), rule, st, pos, ord)

\* The Cache arm of modify_inner: the rewrite of the leaf seen as a bare IO
\* node, wrapped again with the window it had when it is still an IO node.
cache_arm(self, rule, st, pos, ord) ==
    LET r == modify_box(IO(self.io), rule, st, pos, ord)
    IN  IF r.ir.tag = "IO"
        THEN [r EXCEPT !.ir = Cache(self.max_age, r.ir.io)]
        ELSE r

modify_vec_reversed(vec, i, rule, st, pos, ord) ==
    IF i > Len(vec)
    THEN [vec |-> <<>>, st |-> st, calls |-> <<>>]
    ELSE LET h == modify(vec[i], rule, st, pos \o <<i>>, ord)
             t == modify_vec(vec, i + 1, rule, h.st, pos, ord)
         IN  [vec |-> t.vec \o <<h.ir>>, st |-> t.st, calls |-> h.calls \o t.calls]

\* The Merge arm: vec.into_iter().map(|ir| ir.modify(modifier)).collect()
modify_vec(vec, i, rule, st, pos, ord) ==
    IF i > Len(vec)
    THEN [vec |-> <<>>, st |-> st, calls |-> <<>>]
    ELSE LET h == modify(vec[i], rule, st, pos \o <<i>>, ord)
             t == modify_vec(vec, i + 1, rule, h.st, pos, ord)
         IN  [vec |-> <<h.ir>> \o t.vec, st |-> t.st, calls |-> h.calls \o t.calls]

\* The Entity arm: map.into_iter().map(|(k, v)| (k, v.modify(modifier))).collect()
modify_map(map, keys, i, rule, st, pos, ord) ==
    IF i > Len(keys)
    THEN [map |-> <<>>, st |-> st, calls |-> <<>>]
    ELSE LET k == keys[i]
             h == modify(map[k], rule, st, pos \o <<k>>, ord)
             t == modify_map(map, keys, i + 1, rule, h.st, pos, ord)
         IN  [map |-> (k :> h.ir) @@ t.map, st |-> t.st, calls |-> h.calls \o t.calls]

modify_inner(self, rule, st, pos, ord) ==
    LET modified == modifier(rule, st, self)
        call == <<[pos |-> pos, node |-> self, ret |-> modified.ret]>>
        s1 == modified.st
        r == IF Len(modified.ret) > 0
             THEN replaced(modified.ret[1], rule, s1, pos, ord)
             ELSE CASE self.tag = "Pipe" -> pipe_arm(self, rule, s1, pos, ord)
                    [] self.tag = "ContextPath" ->
                         [ir |-> ContextPath(self.path), st |-> s1, calls |-> <<>>]
                    [] self.tag = "Dynamic" -> [ir |-> self, st |-> s1, calls |-> <<>>]
                    [] self.tag = "IO" -> [ir |-> self, st |-> s1, calls |-> <<>>]
                    [] self.tag = "Cache" -> cache_arm(self, rule, s1, pos, ord)
                    [] self.tag = "Path" ->
                         LET c == modify_box(self.input, rule, s1, pos \o <<1>>, ord)
                         IN  [c EXCEPT !.ir = Path(c.ir, self.path)]
                    [] self.tag = "Protect" ->
                         LET c == modify_box(self.input, rule, s1, pos \o <<1>>, ord)
                         IN  [c EXCEPT !.ir = Protect(self.auth, c.ir)]
                    [] self.tag = "Map" ->
                         LET c == modify_box(self.input, rule, s1, pos \o <<1>>, ord)
                         IN  [c EXCEPT !.ir = Map(c.ir, self.map)]
                    [] self.tag = "Discriminate" ->
                         LET c == modify_box(self.input, rule, s1, pos \o <<1>>, ord)
                         IN  [c EXCEPT !.ir = Discriminate(self.discriminator, c.ir)]
                    [] self.tag = "Entity" ->
                         LET c == modify_map(self.map, IterKeys(self.map, ord), 1,
                                             rule, s1, pos, ord)
                         IN  [ir |-> Entity(c.map), st |-> c.st, calls |-> c.calls]
                    [] self.tag = "Service" ->
                         [ir |-> Service(self.sdl), st |-> s1, calls |-> <<>>]
                    [] self.tag = "Merge" ->
                         LET c == modify_vec(self.vec, 1, rule, s1, pos, ord)
                         IN  [ir |-> Merge(c.vec), st |-> c.st, calls |-> c.calls]
    IN  [r EXCEPT !.calls = call \o @]

\* Cache::wrap
wrap(max_age, expr, ord) ==
    modify(expr, [kind |-> "wrap", max_age |-> max_age], 0, <<>>, ord)

(* ------------------------------ modify_io ------------------------------- *)

RECURSIVE modify_io(_, _, _, _, _)
RECURSIVE modify_io_values(_, _, _, _, _, _, _)

\* The Entity arm of modify_io: for ir in hash_map.values_mut()
modify_io_values(map, keys, i, rule, st, pos, ord) ==
    IF i > Len(keys)
    THEN [map |-> map, st |-> st, calls |-> <<>>]
    ELSE LET k == keys[i]
             h == modify_io(map[k], rule, st, pos \o <<k>>, ord)
             t == modify_io_values([map EXCEPT ![k] = h.ir], keys, i + 1, rule, h.st, pos, ord)
         IN  [map |-> t.map, st |-> t.st, calls |-> h.calls \o t.calls]

modify_io_other_into_merge(self, rule, st, pos, ord) ==
    IF self.tag = "Merge" /\ Len(self.vec) > 0
    THEN LET r == modify_io(self.vec[1], rule, st, pos \o <<1>>, ord)
         IN  [r EXCEPT !.ir = [self EXCEPT !.vec[1] = r.ir]]
    ELSE [ir |-> self, st |-> st, calls |-> <<>>]

\* The arm _ => {} of modify_io: Dynamic, ContextPath, Service and Merge.
modify_io_other(self, rule, st, pos, ord) == [ir |-> self, st |-> st, calls |-> <<>>]

\* IR::modify_io.  Besides the tree as it is left it returns the state the
\* rule is left with and the rule's invocations in order: the position of
\* the node holding the leaf and the leaf the rule was shown.
modify_io(self, rule, st, pos, ord) ==
    CASE self.tag = "IO" ->
            LET m == io_modifier(rule, st, self.io)
            IN  [ir |-> [self EXCEPT !.io = m.io], st |-> m.st,
                 calls |-> <<[pos |-> pos, io |-> self.io]>>]
      [] self.tag = "Cache" ->
            LET m == io_modifier(rule, st, self.io)
            IN  [ir |-> [self EXCEPT !.io = m.io], st |-> m.st,
                 calls |-> <<[pos |-> pos, io |-> self.io]>>]
      [] self.tag \in {"Discriminate", "Protect", "Path"} ->
            LET r == modify_io(self.input, rule, st, pos \o <<1>>, ord)
            IN  [r EXCEPT !.ir = [self EXCEPT !.input = r.ir]]
      [] self.tag = "Pipe" ->
            LET a == modify_io(self.first, rule, st, pos \o <<1>>, ord)
                b == modify_io(self.second, rule, a.st, pos \o <<2>>, ord)
            IN  [ir |-> [self EXCEPT !.first = a.ir, !.second = b.ir], st |-> b.st,
                 calls |-> a.calls \o b.calls]
      [] self.tag = "Entity" ->
            LET r == modify_io_values(self.map, IterKeys(self.map, ord), 1, rule, st, pos, ord)
            IN  [ir |-> [self EXCEPT !.map = r.map], st |-> r.st, calls |-> r.calls]
      [] self.tag = "Map" ->
            LET r == modify_io(self.input, rule, st, pos \o <<1>>, ord)
            IN  [r EXCEPT !.ir = [self EXCEPT !.input = r.ir]]
      [] OTHER -> modify_io_other(self, rule, st, pos, ord)

(* --------------------------- tree structure ----------------------------- *)

\* The children a node owns, by child index.
Kids(t) ==
    CASE t.tag \in {"Path", "Protect", "Map", "Discriminate"} -> <<t.input>>
      [] t.tag = "Pipe" -> <<t.first, t.second>>
      [] t.tag = "Merge" -> t.vec
      [] t.tag = "Entity" -> t.map
      [] OTHER -> <<>>

RECURSIVE Size(_)
RECURSIVE SizeOver(_, _)

SizeOver(kids, S) ==
    IF S = {}
    THEN 0
    ELSE LET x == CHOOSE y \in S : TRUE
         IN  Size(kids[x]) + SizeOver(kids, S \ {x})

\* The number of nodes of a tree.
Size(t) == 1 + SizeOver(Kids(t), DOMAIN Kids(t))

RECURSIVE Positions(_)

\* The positions of the nodes of a tree.
Positions(t) ==
    {<<>>} \cup UNION {{<<i>> \o p : p \in Positions(Kids(t)[i])} : i \in DOMAIN Kids(t)}

RECURSIVE At(_, _)

\* The node at a position of a tree.
At(t, pos) == IF pos = <<>> THEN t ELSE At(Kids(t)[Head(pos)], Tail(pos))

\* The positions of the nodes that hold a leaf operation.
LeafPositions(t) == {p \in Positions(t) : At(t, p).tag \in {"IO", "Cache"}}

(* ------------------------------- inputs --------------------------------- *)

ioA == Http("users", None, TRUE)

ioB == Grpc("post/{{args.id}}", None, FALSE)

ioG == GraphQL("post/{{args.id}}", None, TRUE)

ioJ == Js("onRequest")

ioR == Grpc("users", None, TRUE)

\* Pipe(IO(a), Discriminate(d, Protect(auth, Path(Cache{io: b, ttl}, path))))
PipeExample ==
    Pipe(IO(ioA), Discriminate("d", Protect("auth", Path(Cache(2, ioB), <<"data">>))))

\* A tree containing a Merge of two IO leaves.
MergeExample == Pipe(IO(ioA), Merge(<<IO(ioG), IO(ioJ)>>))

\* The trees the blueprint starts from.
Seeds ==
    { Dynamic("v"), ContextPath(<<"args">>), Service("sdl"), IO(ioA), IO(ioJ),
      Cache(1, ioB), Merge(<<>>), Entity(<<>>), PipeExample, MergeExample }

\* The trees the blueprint puts beside the one it is building.
Siblings == { IO(ioG), Cache(2, ioJ) }

\* The replacements of the rules that replace.
Replacements == { IO(ioR), Cache(2, ioR), Dynamic("r"), Pipe(IO(ioR), Dynamic("r")) }

\* The rules modify is called with.
Rules ==
    {[kind |-> "decline"], [kind |-> "uncache"]}
    \cup {[kind |-> "replace_io", with |-> r] : r \in Replacements}
    \cup {[kind |-> "nth", n |-> n, with |-> Service("n")] : n \in 1..MaxNth}

\* The rules modify_io is called with.
IoRules == {[kind |-> "toggle_dedupe"], [kind |-> "number"]}

\* A rule whose replacement is larger than the node it replaces.
Grows(rule) == rule.kind = "replace_io" /\ Size(rule.with) > 1

(* ------------------------------ the passes ------------------------------ *)

Init ==
    /\ ir \in Seeds
    /\ input = ir
    /\ op = [name |-> "build"]
    /\ calls = <<>>

Built(t) ==
    /\ op.name = "build"
    /\ Size(t) <= MaxNodes
    /\ ir' = t
    /\ input' = t
    /\ UNCHANGED <<op, calls>>

BuildPath == Built(Path(ir, <<"data">>))

BuildProtect == Built(Protect("auth", ir))

BuildMap == Built(Map(ir, [id |-> "key"]))

BuildDiscriminate == Built(Discriminate("d", ir))

BuildPipe == \E s \in Siblings : \E t \in {pipe(ir, s), pipe(s, ir)} : Built(t)

BuildMerge ==
    \E s \in Siblings : \E t \in {Merge(<<ir>>), Merge(<<ir, s>>), Merge(<<s, ir>>)} : Built(t)

BuildEntity ==
    \E s \in Siblings, k \in TypeNames :
        \E t \in {Entity(k :> ir), Entity((k :> ir) @@ ((3 - k) :> s))} : Built(t)

\* The passes of a pipeline: a pass runs over the tree the blueprint built,
\* or is the pass that has just run, run again (wrap with any window).  The
\* evaluator's accessors read the tree the passes leave; no pass follows them.
Follows(next) ==
    \/ op.name = "build"
    \/ op.name = "wrap" /\ next.name = "wrap"
    \/ op.name \in {"modify", "modify_io"} /\ next = op

RECURSIVE HasWideEntity(_)

HasWideEntity(t) ==
    \/ t.tag = "Entity" /\ Cardinality(DOMAIN t.map) > 1
    \/ \E i \in DOMAIN Kids(t) : HasWideEntity(Kids(t)[i])

\* The iteration orders that differ on the HashMaps of a tree.
OrdersOf(t) == IF HasWideEntity(t) THEN IterOrders ELSE {<<1, 2>>}

Wrap ==
    \E w \in Windows, ord \in OrdersOf(ir) :
        LET r == wrap(w, ir, ord)
        IN  /\ Follows([name |-> "wrap", max_age |-> w])
            /\ ir' = r.ir
            /\ input' = ir
            /\ op' = [name |-> "wrap", max_age |-> w]
            /\ calls' = r.calls

Modify ==
    \E rule \in Rules, ord \in OrdersOf(ir) :
        /\ Follows([name |-> "modify", rule |-> rule])
        /\ Grows(rule) => Size(ir) <= MaxNodes
        /\ LET r == modify(ir, rule, 0, <<>>, ord)
           IN  /\ ir' = r.ir
               /\ input' = ir
               /\ op' = [name |-> "modify", rule |-> rule]
               /\ calls' = r.calls

ModifyIo ==
    \E rule \in IoRules, ord \in OrdersOf(ir) :
        LET r == modify_io(ir, rule, 0, <<>>, ord)
        IN  /\ Follows([name |-> "modify_io", rule |-> rule])
            /\ ir' = r.ir
            /\ input' = ir
            /\ op' = [name |-> "modify_io", rule |-> rule]
            /\ calls' = r.calls

Dedupe ==
    \E p \in LeafPositions(ir) :
        /\ op' = [name |-> "dedupe", io |-> At(ir, p).io, ret |-> dedupe(At(ir, p).io)]
        /\ input' = ir
        /\ calls' = <<>>
        /\ UNCHANGED ir

CacheKey ==
    \E p \in LeafPositions(ir), ctx \in Contexts :
        /\ op' = [name |-> "cache_key", io |-> At(ir, p).io, ctx |-> ctx,
                  ret |-> cache_key(At(ir, p).io, ctx)]
        /\ input' = ir
        /\ calls' = <<>>
        /\ UNCHANGED ir

Next ==
    \/ BuildPath
    \/ BuildProtect
    \/ BuildMap
    \/ BuildDiscriminate
    \/ BuildPipe
    \/ BuildMerge
    \/ BuildEntity
    \/ Wrap
    \/ Modify
    \/ ModifyIo
    \/ Dedupe
    \/ CacheKey

Spec == Init /\ [][Next]_vars

(* ------------------------- what the claims read ------------------------- *)

IsPrefix(p, q) == Len(p) <= Len(q) /\ SubSeq(q, 1, Len(p)) = p

IsProperPrefix(p, q) == Len(p) < Len(q) /\ SubSeq(q, 1, Len(p)) = p

\* Two nodes of the same variant with the same payload and the same child
\* indexes (the children themselves are not compared).
SameNode(a, b) ==
    /\ a.tag = b.tag
    /\ DOMAIN Kids(a) = DOMAIN Kids(b)
    /\ CASE a.tag = "Dynamic" -> a.value = b.value
         [] a.tag = "IO" -> a.io = b.io
         [] a.tag = "Cache" -> a.io = b.io /\ a.max_age = b.max_age
         [] a.tag = "Path" -> a.path = b.path
         [] a.tag = "ContextPath" -> a.path = b.path
         [] a.tag = "Protect" -> a.auth = b.auth
         [] a.tag = "Map" -> a.map = b.map
         [] a.tag = "Discriminate" -> a.discriminator = b.discriminator
         [] a.tag = "Service" -> a.sdl = b.sdl
         [] OTHER -> TRUE

CachePositions(t) == {p \in Positions(t) : At(t, p).tag = "Cache"}

BareIOPositions(t) == {p \in Positions(t) : At(t, p).tag = "IO"}

Rewrote == op.name \in {"modify", "wrap"}

Calls == 1..Len(calls)

Declined(i) == Len(calls[i].ret) = 0

\* The positions the rule replaced in the last rewrite.
ReplacedPositions == {calls[i].pos : i \in {j \in Calls : ~Declined(j)}}

UnderReplaced(p) == \E q \in ReplacedPositions : IsPrefix(q, p)

(* ------------------------------- C1 ------------------------------------- *)

\* C1: modify with a rule that always declines returns a tree equal to its
\* input: the same variant at every position, the same children in the same
\* order and under the same keys, the same payloads and the same windows.
C1_DeclineIsIdentity ==
    (op.name = "modify" /\ op.rule.kind = "decline") =>
        /\ Positions(ir) = Positions(input)
        /\ \A p \in Positions(input) : SameNode(At(ir, p), At(input, p))
        /\ ir = input

C1_Witness ==
    /\ op.name = "modify"
    /\ op.rule.kind = "decline"
    /\ input.tag = "Entity"
    /\ DOMAIN input.map = {1, 2}
    /\ \E k \in {1, 2} : input.map[k].tag = "Cache"

(* ------------------------------- C2 ------------------------------------- *)

\* C2: wrap(w, tree) has the shape of tree, holds a Cache node with window w
\* and the original leaf at each of the k positions where tree holds an IO
\* or a Cache node, holds no other Cache node and no bare IO node.
C2_WrapCachesEveryLeaf ==
    op.name = "wrap" =>
        /\ Positions(ir) = Positions(input)
        /\ \A p \in Positions(input) :
              IF At(input, p).tag \in {"IO", "Cache"}
              THEN At(ir, p) = Cache(op.max_age, At(input, p).io)
              ELSE SameNode(At(ir, p), At(input, p))
        /\ Cardinality(CachePositions(ir)) = Cardinality(LeafPositions(input))
        /\ \A p \in CachePositions(ir) : At(ir, p).max_age = op.max_age
        /\ BareIOPositions(ir) = {}

C2_Witness ==
    /\ op.name = "wrap"
    /\ op.max_age = 1
    /\ input = Merge(<<Cache(2, ioJ), IO(ioA)>>)
    /\ ir = Merge(<<Cache(1, ioJ), Cache(1, ioA)>>)

(* ------------------------------- C3 ------------------------------------- *)

\* C3: wrap with a window w2 over the result of wrap with another window w1
\* has that result's shape and leaves, with every Cache window equal to w2.
C3_RewrapOverwritesWindow ==
    [][(op.name = "wrap" /\ op'.name = "wrap" /\ op.max_age # op'.max_age) =>
          /\ Positions(ir') = Positions(ir)
          /\ \A p \in Positions(ir) :
                IF At(ir, p).tag = "Cache"
                THEN At(ir', p) = Cache(op'.max_age, At(ir, p).io)
                ELSE SameNode(At(ir', p), At(ir, p))
          /\ CachePositions(ir') = CachePositions(ir)
          /\ \A p \in CachePositions(ir') : At(ir', p).max_age = op'.max_age]_vars

\* Only wrap(1, Merge([Cache{2, j}, IO(a)])) is this input.
C3_Witness ==
    /\ op.name = "wrap"
    /\ op.max_age = 2
    /\ input = Merge(<<Cache(1, ioJ), Cache(1, ioA)>>)
    /\ ir = Merge(<<Cache(2, ioJ), Cache(2, ioA)>>)

(* ------------------------------- C4 ------------------------------------- *)

RECURSIVE ReachIO(_)

\* The positions of the leaves reached from the root through the child of
\* Discriminate, Protect, Path and Map, both children of Pipe and the values
\* of Entity.
ReachIO(t) ==
    IF t.tag \in {"IO", "Cache"}
    THEN {<<>>}
    ELSE IF t.tag \in {"Discriminate", "Protect", "Path", "Map", "Pipe", "Entity"}
         THEN UNION {{<<i>> \o p : p \in ReachIO(Kids(t)[i])} : i \in DOMAIN Kids(t)}
         ELSE {}

\* C4: modify_io applies the rule once to each leaf of ReachIO and to no
\* other leaf, to none beneath a Merge node, and leaves every other node and
\* the shape of the tree as they were; on the Pipe example both leaves are
\* mutated, on the Merge example the leaves of the Merge are not.
C4_ModifyIoReach ==
    op.name = "modify_io" =>
        /\ Positions(ir) = Positions(input)
        /\ Len(calls) = Cardinality(ReachIO(input))
        /\ {calls[i].pos : i \in Calls} = ReachIO(input)
        /\ \A i \in Calls :
              /\ calls[i].io = At(input, calls[i].pos).io
              /\ At(ir, calls[i].pos) =
                    [At(input, calls[i].pos) EXCEPT
                        !.io = io_modifier(op.rule, i - 1, calls[i].io).io]
              /\ ~\E q \in Positions(input) :
                    IsProperPrefix(q, calls[i].pos) /\ At(input, q).tag = "Merge"
        /\ \A p \in Positions(input) \ ReachIO(input) :
              IF At(input, p).tag \in {"IO", "Cache"}
              THEN At(ir, p) = At(input, p)
              ELSE SameNode(At(ir, p), At(input, p))
        /\ input = PipeExample => {calls[i].io : i \in Calls} = {ioA, ioB}
        /\ input = MergeExample => At(ir, <<2>>) = Merge(<<IO(ioG), IO(ioJ)>>)

C4_Witness ==
    /\ op.name = "modify_io"
    /\ op.rule.kind = "toggle_dedupe"
    /\ input = MergeExample
    /\ ir = Pipe(IO(Http("users", None, FALSE)), Merge(<<IO(ioG), IO(ioJ)>>))

(* ------------------------------- C5 ------------------------------------- *)

\* A tree with no IO and no Cache node below its root.
NoLeafBelowRoot(t) == \A p \in LeafPositions(t) : p = <<>>

\* C5 as stated: modify with a rule that replaces every bare IO node by the
\* same replacement, applied to its own result, returns that result.
C5_Original ==
    [][(op.name = "modify" /\ op.rule.kind = "replace_io" /\ op' = op) => ir' = ir]_vars

\* C5 amended: the same, for a replacement with no IO and no Cache node
\* below its root.
C5_IdempotentReplacement ==
    [][(/\ op.name = "modify"
        /\ op.rule.kind = "replace_io"
        /\ NoLeafBelowRoot(op.rule.with)
        /\ op' = op) => ir' = ir]_vars

\* A tree holding IO(ioR) is the result of this rule; here the rule has run
\* over it again.
C5_Witness ==
    /\ op.name = "modify"
    /\ op.rule = [kind |-> "replace_io", with |-> IO(ioR)]
    /\ input = Merge(<<Cache(2, ioR), IO(ioR)>>)
    /\ ir = input

(* ------------------------------- C6 ------------------------------------- *)

\* C6: where the rule declines a Cache node it is invoked next on the bare
\* IO view of the wrapped leaf; when that yields an IO node the result at the
\* position is a Cache node holding that leaf with the original window, and
\* otherwise what it yields, unwrapped.  Every Cache node of the result
\* holds one leaf operation, and has the window the input has at its
\* position or is part of a replacement the rule returned.
C6_CacheArm ==
    Rewrote =>
        /\ \A p \in CachePositions(ir) :
              At(ir, p).io.kind \in {"Http", "GraphQL", "Grpc", "Js"}
        /\ \A i \in Calls :
              (calls[i].node.tag = "Cache" /\ Declined(i)) =>
                  /\ i < Len(calls)
                  /\ calls[i + 1].pos = calls[i].pos
                  /\ calls[i + 1].node = IO(calls[i].node.io)
                  /\ At(ir, calls[i].pos) =
                        IF Declined(i + 1)
                        THEN Cache(calls[i].node.max_age, calls[i].node.io)
                        ELSE IF calls[i + 1].ret[1].tag = "IO"
                             THEN Cache(calls[i].node.max_age, calls[i + 1].ret[1].io)
                             ELSE calls[i + 1].ret[1]
        /\ \A p \in CachePositions(ir) :
              \/ /\ p \in Positions(input)
                 /\ At(input, p).tag = "Cache"
                 /\ At(input, p).max_age = At(ir, p).max_age
              \/ \E i \in Calls :
                    /\ ~Declined(i)
                    /\ IsPrefix(calls[i].pos, p)
                    /\ LET q == SubSeq(p, Len(calls[i].pos) + 1, Len(p))
                       IN  /\ q \in Positions(calls[i].ret[1])
                           /\ At(calls[i].ret[1], q) = At(ir, p)

C6_Witness ==
    /\ op.name = "modify"
    /\ op.rule = [kind |-> "replace_io", with |-> IO(ioR)]
    /\ input = Pipe(Cache(1, ioB), Cache(2, ioJ))
    /\ ir = Pipe(Cache(1, ioR), Cache(2, ioR))

(* ------------------------------- C7 ------------------------------------- *)

\* C7: a replacement the rule returns stands at the position verbatim, and
\* the rule is invoked neither again for that position nor for any position
\* below it.
C7_ReplacementVerbatim ==
    Rewrote =>
        \A i \in Calls :
            ~Declined(i) =>
                /\ calls[i].pos \in Positions(ir)
                /\ \/ At(ir, calls[i].pos) = calls[i].ret[1]
                   \/ /\ calls[i].ret[1].tag = "IO"
                      /\ i > 1
                      /\ calls[i - 1].pos = calls[i].pos
                      /\ calls[i - 1].node.tag = "Cache"
                      /\ At(ir, calls[i].pos) =
                            Cache(calls[i - 1].node.max_age, calls[i].ret[1].io)
                /\ \A j \in Calls :
                      /\ ~IsProperPrefix(calls[i].pos, calls[j].pos)
                      /\ j > i => calls[j].pos # calls[i].pos

C7_Witness ==
    /\ op.name = "modify"
    /\ op.rule.kind = "nth"
    /\ op.rule.n = 3
    /\ input = PipeExample
    /\ ir = Pipe(IO(ioA), Service("n"))
    /\ Len(calls) = 3

(* ------------------------------- C8 ------------------------------------- *)

\* C8: dedupe is false for a Js leaf and the declared flag for an Http, a
\* GraphQL and a Grpc leaf, and leaves the tree as it is; wrap keeps the
\* flag of every leaf, and modify that of every leaf at a position the rule
\* did not replace.
C8_Dedupe ==
    /\ op.name = "dedupe" =>
          /\ op.io.kind = "Js" => op.ret = FALSE
          /\ op.io.kind \in {"Http", "GraphQL", "Grpc"} => op.ret = op.io.dedupe
          /\ ir = input
    /\ op.name = "wrap" =>
          \A p \in LeafPositions(input) :
              /\ p \in LeafPositions(ir)
              /\ dedupe(At(ir, p).io) = dedupe(At(input, p).io)
    /\ op.name = "modify" =>
          \A p \in LeafPositions(input) :
              ~UnderReplaced(p) =>
                  /\ p \in LeafPositions(ir)
                  /\ At(ir, p).io = At(input, p).io
                  /\ dedupe(At(ir, p).io) = dedupe(At(input, p).io)

C8_Witness ==
    /\ op.name = "dedupe"
    /\ op.io = ioJ
    /\ op.ret = FALSE
    /\ \E p \in LeafPositions(ir) : At(ir, p) = Cache(1, ioJ)

(* ------------------------------- C9 ------------------------------------- *)

\* C9: cache_key returns an identifier or absence: absence for a Js leaf
\* under every context, and for an Http, a GraphQL and a Grpc leaf what the
\* request template of the leaf returns for the context; it changes nothing,
\* and a call after another on the same leaf, with the template returning
\* the same, returns the same.
C9_CacheKey ==
    [][op'.name = "cache_key" =>
          /\ Len(op'.ret) <= 1
          /\ op'.io.kind = "Js" => op'.ret = None
          /\ op'.io.kind \in {"Http", "GraphQL", "Grpc"} =>
                op'.ret = req_template_cache_key(op'.io.req_template, op'.ctx)
          /\ ir' = ir
          /\ (/\ op.name = "cache_key"
              /\ op.io = op'.io
              /\ \/ op.io.kind = "Js"
                 \/ req_template_cache_key(op.io.req_template, op.ctx) =
                       req_template_cache_key(op'.io.req_template, op'.ctx))
             => op'.ret = op.ret]_vars

C9_Witness ==
    /\ op.name = "cache_key"
    /\ op.io = ioB
    /\ op.ctx = Some(2)
    /\ op.ret = Some(IoId(22))

(* ------------------------------- C10 ------------------------------------ *)

\* The invocation is on the node the input has at the position it is for.
OnInputNode(i) ==
    /\ calls[i].pos \in Positions(input)
    /\ calls[i].node = At(input, calls[i].pos)

\* The invocation is on the bare IO view of the leaf of the Cache node the
\* rule has just declined.
OnDeclinedCacheView(i) ==
    /\ i > 1
    /\ OnInputNode(i - 1)
    /\ calls[i - 1].node.tag = "Cache"
    /\ Declined(i - 1)
    /\ calls[i].pos = calls[i - 1].pos
    /\ calls[i].node = IO(calls[i - 1].node.io)

\* The positions p and q lie under the children a and b of a node of one of
\* the given variants, a before b.
UnderOrderedChildren(p, q, tags) ==
    \E n \in 0..Len(p) - 1 :
        /\ n < Len(q)
        /\ SubSeq(p, 1, n) = SubSeq(q, 1, n)
        /\ At(input, SubSeq(p, 1, n)).tag \in tags
        /\ p[n + 1] < q[n + 1]

\* C10: modify invokes the rule on a node before its children, on the first
\* subtree of a Pipe before the second, on the children of a Merge in list
\* order, at most once on a node of the input, and otherwise only once on
\* the bare IO view of each Cache node it has just declined, which is then
\* invoked twice.
C10_InvocationOrder ==
    Rewrote =>
        /\ Len(calls) > 0
        /\ calls[1].pos = <<>>
        /\ \A i \in Calls : OnInputNode(i) \/ OnDeclinedCacheView(i)
        /\ \A i, j \in Calls :
              /\ IsProperPrefix(calls[i].pos, calls[j].pos) => i < j
              /\ UnderOrderedChildren(calls[i].pos, calls[j].pos, {"Pipe", "Merge"}) => i < j
              /\ (i # j /\ OnInputNode(i) /\ OnInputNode(j)) => calls[i].pos # calls[j].pos
        /\ \A i \in Calls :
              (OnInputNode(i) /\ calls[i].node.tag = "Cache" /\ Declined(i)) =>
                  /\ i < Len(calls)
                  /\ OnDeclinedCacheView(i + 1)
                  /\ Cardinality({j \in Calls : calls[j].pos = calls[i].pos}) = 2
        /\ \A p \in Positions(input) :
              (\A q \in ReplacedPositions : ~IsProperPrefix(q, p)) =>
                  Cardinality({j \in Calls : calls[j].pos = p /\ OnInputNode(j)}) = 1

C10_Witness ==
    /\ op.name = "modify"
    /\ op.rule.kind = "nth"
    /\ op.rule.n = 3
    /\ input = Merge(<<Cache(2, ioJ), IO(ioA)>>)
    /\ ir = Merge(<<Service("n"), IO(ioA)>>)
    /\ Len(calls) = 4

====
